---------------------------- MODULE Spec2Model ----------------------------
(***************************************************************************)
(* Model of app.py, the PHY 132 resistor checker (a Streamlit script).     *)
(*                                                                         *)
(* Numbers.  The script works on Python floats (IEEE 754 binary64).  The   *)
(* model computes with the same numbers: a float is a record               *)
(* [s, m, e] standing for s * m * 2^e, with sign s in {-1, 0, 1} and m a   *)
(* significand of exactly MantBits bits (zero is [0, <<>>, 0]).  A         *)
(* significand is a natural number written in base 2^15, least significant *)
(* limb first.  FSub, FMul, FDiv and FSqrt give the exact result rounded   *)
(* to nearest, ties to even, as the hardware does; overflow and subnormal  *)
(* numbers are out of the range the script works in.                       *)
(*                                                                         *)
(* A decimal the program reads as text (a literal of the source, a value   *)
(* typed into a number input) is kept as the integer n that stands for     *)
(* n / SCALE (38.1 ohm is 38100); FDec(n) is the float it denotes.         *)
(* Tolerances and the multiplier are whole numbers; FInt gives the float.  *)
(*                                                                         *)
(* Execution.  Streamlit runs the script top to bottom on every widget     *)
(* interaction.  A run in which the button was not pressed is one action   *)
(* (ScriptRun).  A run in which it was pressed is the same top part        *)
(* followed by the button's block; the block is split at its only blocking *)
(* point, the HTTP POST: Check (lines 136-169), Post (172-193 and 93),      *)
(* Response (94-96 and 194-197).  While a run is between these steps no    *)
(* other action is enabled.                                                *)
(***************************************************************************)
EXTENDS Integers, Sequences, FiniteSets

VARIABLES
    pc,            \* "idle", "log", "await", "done", "crashed"; "fn*", "pct*"
    res_num,       \* widget, line 118
    R_student,     \* widget, line 127
    Vmax,          \* widget, line 128
    I_120,         \* widget, line 130
    P_120,         \* widget, line 131
    rinfo,         \* line 119: [found, R_nom, R_meas]; found = FALSE is None
    R_ref,         \* line 120, the catalog's decimal
    Vmax_exp,      \* line 134, a float
    I120_exp,      \* line 134, a float
    P120_exp,      \* line 134, a float
    defined,       \* the names among R_ref, expected, verdicts this run has assigned
    icons,         \* the four verdict icons written at lines 152-159
    result_label,  \* lines 161-169
    screen,        \* the elements this run has written to the page, in order
    payload,       \* lines 172-193: the record handed to log_submission
    attempts,      \* POSTs issued by this run (line 93)
    outcome,       \* what requests.post did (line 93)
    status,        \* line 194
    err,           \* the exception that ended the run, "none" if none
    student_val,   \* argument of pct_close / almost_within, a decimal
    target_val,    \* argument of pct_close / almost_within, a decimal
    tol_pct,       \* argument of pct_close / almost_within, a whole number
    ok,            \* result of pct_close: "none", "true", "false"
    almost         \* result of almost_within: "none", "true", "false"

vars == <<pc, res_num, R_student, Vmax, I_120, P_120, rinfo, R_ref, Vmax_exp,
          I120_exp, P120_exp, defined, icons, result_label, screen, payload,
          attempts, outcome, status, err, student_val, target_val, tol_pct, ok, almost>>

-----------------------------------------------------------------------------
(* Configuration, lines 10-20.                                             *)

SCALE == 1000

P_RATING_W == 1000

V_SUPPLY == 120000

TOL_R_PCT == 5

TOL_VMAX_PCT == 5

TOL_I120_PCT == 5

TOL_P120_PCT == 5

ALMOST_MULT == 2

(* The catalog, lines 32-63, in 1/SCALE ohm.                               *)
R_nom_table ==
    <<39000, 39000, 47000, 47000, 56000, 56000, 75000, 75000, 82000, 82000,
      100000, 100000, 150000, 150000, 200000, 200000, 270000, 270000,
      330000, 330000, 390000, 390000, 470000, 470000, 560000, 560000,
      750000, 750000, 820000, 820000>>

R_meas_table ==
    <<38000, 38100, 45900, 45700, 54800, 55300, 74100, 72500, 80000, 78800,
      97000, 98600, 147800, 148700, 193500, 193600, 267000, 264000,
      323000, 323000, 376000, 395000, 527000, 487000, 544000, 572000,
      729000, 749000, 828000, 814000>>

RESISTORS ==
    [n \in 1..Len(R_meas_table) |->
        [R_nom |-> R_nom_table[n], R_meas |-> R_meas_table[n]]]

-----------------------------------------------------------------------------
(* Natural numbers in base 2^15, least significant limb first, without     *)
(* leading zero limbs; <<>> is 0.                                          *)

Base == 2^15

RECURSIVE BNorm(_)
BNorm(a) ==
    IF a = <<>> THEN <<>>
    ELSE IF a[Len(a)] = 0 THEN BNorm(SubSeq(a, 1, Len(a) - 1))
    ELSE a

RECURSIVE BFromInt(_)
BFromInt(n) == IF n = 0 THEN <<>> ELSE <<n % Base>> \o BFromInt(n \div Base)

(* -1, 0, 1 as a < b, a = b, a > b, comparing the limbs k, k-1, ..., 1 of  *)
(* two numbers of the same length                                          *)
RECURSIVE BCmpFrom(_, _, _)
BCmpFrom(a, b, k) ==
    IF k = 0 THEN 0
    ELSE IF a[k] < b[k] THEN 0 - 1
    ELSE IF a[k] > b[k] THEN 1
    ELSE BCmpFrom(a, b, k - 1)

BCmp(a, b) ==
    IF Len(a) < Len(b) THEN 0 - 1
    ELSE IF Len(a) > Len(b) THEN 1
    ELSE BCmpFrom(a, b, Len(a))

(* a + b + c *)
RECURSIVE BAddC(_, _, _)
BAddC(a, b, c) ==
    IF a = <<>> /\ b = <<>> THEN (IF c = 0 THEN <<>> ELSE <<c>>)
    ELSE LET x == (IF a = <<>> THEN 0 ELSE Head(a))
                  + (IF b = <<>> THEN 0 ELSE Head(b)) + c
         IN  <<x % Base>> \o BAddC(IF a = <<>> THEN <<>> ELSE Tail(a),
                                   IF b = <<>> THEN <<>> ELSE Tail(b),
                                   x \div Base)

BAdd(a, b) == BAddC(a, b, 0)

(* a - b - c for a >= b + c, before leading zeros are dropped *)
RECURSIVE BSubC(_, _, _)
BSubC(a, b, c) ==
    IF a = <<>> THEN <<>>
    ELSE LET x == Head(a) - (IF b = <<>> THEN 0 ELSE Head(b)) - c
         IN  <<IF x < 0 THEN x + Base ELSE x>>
             \o BSubC(Tail(a), IF b = <<>> THEN <<>> ELSE Tail(b),
                      IF x < 0 THEN 1 ELSE 0)

BSub(a, b) == BNorm(BSubC(a, b, 0))

(* a * k + c for a limb k *)
RECURSIVE BMulSmallC(_, _, _)
BMulSmallC(a, k, c) ==
    IF a = <<>> THEN (IF c = 0 THEN <<>> ELSE <<c>>)
    ELSE LET x == Head(a) * k + c
         IN  <<x % Base>> \o BMulSmallC(Tail(a), k, x \div Base)

BMulSmall(a, k) == IF k = 0 THEN <<>> ELSE BMulSmallC(a, k, 0)

RECURSIVE BMulR(_, _)
BMulR(a, b) ==
    IF b = <<>> THEN <<>>
    ELSE BAdd(BMulSmall(a, Head(b)), <<0>> \o BMulR(a, Tail(b)))

BMul(a, b) == IF a = <<>> \/ b = <<>> THEN <<>> ELSE BNorm(BMulR(a, b))

(* Quotient (with leading zeros) and remainder of a by k, for k * Base     *)
(* within the integers.                                                    *)
RECURSIVE BDivSmallR(_, _)
BDivSmallR(a, k) ==
    IF a = <<>> THEN [q |-> <<>>, r |-> 0]
    ELSE LET rest == BDivSmallR(Tail(a), k)
             cur  == rest.r * Base + Head(a)
         IN  [q |-> <<cur \div k>> \o rest.q, r |-> cur % k]

RECURSIVE Zeros(_)
Zeros(n) == IF n = 0 THEN <<>> ELSE <<0>> \o Zeros(n - 1)

(* a * 2^n *)
BShl(a, n) ==
    IF a = <<>> THEN <<>>
    ELSE Zeros(n \div 15) \o BMulSmall(a, 2^(n % 15))

BShrOf(d, low) == [q |-> BNorm(d.q), cut |-> d.r # 0 \/ low # <<>>]

(* floor(a / 2^n), and whether anything was cut off *)
BShr(a, n) ==
    IF n \div 15 < Len(a)
    THEN BShrOf(BDivSmallR(SubSeq(a, (n \div 15) + 1, Len(a)), 2^(n % 15)),
                BNorm(SubSeq(a, 1, n \div 15)))
    ELSE [q |-> <<>>, cut |-> a # <<>>]

RECURSIVE BitLenInt(_)
BitLenInt(n) == IF n = 0 THEN 0 ELSE 1 + BitLenInt(n \div 2)

BBitLen(a) ==
    IF a = <<>> THEN 0 ELSE 15 * (Len(a) - 1) + BitLenInt(a[Len(a)])

BOdd(a) == a # <<>> /\ a[1] % 2 = 1

(* The largest digit at most q whose product with d is at most r.          *)
RECURSIVE FitDigit(_, _, _)
FitDigit(r, d, q) ==
    IF BCmp(BMulSmall(d, q), r) <= 0 THEN q ELSE FitDigit(r, d, q - 1)

(* The digit of r \div d for r < d * Base, from an estimate by the top     *)
(* limbs of r and d that is never too small.                               *)
EstDigit(r, d) ==
    LET top == (IF Len(r) > Len(d) THEN r[Len(d) + 1] * Base ELSE 0)
               + (IF Len(r) >= Len(d) THEN r[Len(d)] ELSE 0)
        est == top \div d[Len(d)]
    IN  FitDigit(r, d, IF est > Base - 1 THEN Base - 1 ELSE est)

(* Long division in base Base: the quotient digits q so far and the        *)
(* remainder rem < d so far, continued with the limbs lo of the dividend   *)
(* not yet brought down; d has the top bit of its top limb set.  Each step *)
(* takes the values of its arguments first (x \in {e} stands for the value *)
(* of e).                                                                  *)
RECURSIVE DivDigits(_, _, _, _)
DivDigit(r_, d, q, lo) ==
    CHOOSE res \in {
        DivDigits(BSub(r, BMulSmall(d, dig)), d, <<dig>> \o q, lo)
        : r \in {r_}, dig \in {EstDigit(r_, d)} } : TRUE

DivDigits(rem_, d_, q_, lo_) ==
    CHOOSE res \in {
        IF lo = <<>> THEN [q |-> BNorm(q), r |-> rem]
        ELSE DivDigit(BNorm(<<lo[Len(lo)]>> \o rem), d, q,
                      SubSeq(lo, 1, Len(lo) - 1))
        : rem \in {rem_}, d \in {d_}, q \in {q_}, lo \in {lo_} } : TRUE

(* Quotient and remainder of a by d, where d has the top bit of its top    *)
(* limb set.                                                               *)
BDivMod(a, d) == DivDigits(<<>>, d, <<>>, a)

(* The shift that sets the top bit of the top limb of d.                   *)
TopShift(d) == (15 - (BBitLen(d) % 15)) % 15

(* floor(a / d) for d # 0 *)
BDiv(a, d) == BDivMod(BShl(a, TopShift(d)), BShl(d, TopShift(d))).q

(* floor(sqrt(N)) by Newton's iteration from a start r >= sqrt(N): the     *)
(* next value is floor((r + floor(N / r)) / 2), and r is the root as soon  *)
(* as the next value is not below it.                                      *)
RECURSIVE SqrtNewton(_, _)
SqrtNewton(N_, r_) ==
    CHOOSE res \in {
        IF BCmp(y, r) >= 0 THEN r ELSE SqrtNewton(N, y)
        : N \in {N_}, r \in {r_},
          y \in {BShr(BAdd(r_, BDiv(N_, r_)), 1).q} } : TRUE

BSqrt(N) ==
    IF N = <<>> THEN <<>>
    ELSE SqrtNewton(N, BShl(<<1>>, (BBitLen(N) + 1) \div 2))

-----------------------------------------------------------------------------
(* Floats.                                                                 *)

MantBits == 53

Zero == [s |-> 0, m |-> <<>>, e |-> 0]

(* The significand q, of MantBits bits or, after a carry, one more.        *)
RoundCarry(sign, q, x) ==
    IF BBitLen(q) > MantBits
    THEN [s |-> sign, m |-> BShr(q, 1).q, e |-> x + 1]
    ELSE [s |-> sign, m |-> q, e |-> x]

(* hi is the number cut to MantBits bits, half the number cut to one bit   *)
(* more: round up when the bit cut off is set and either something lies    *)
(* below it or the significand is odd.                                     *)
RoundCut(sign, hi, half, x, sticky) ==
    RoundCarry(sign,
               IF BOdd(half.q) /\ (sticky \/ half.cut \/ BOdd(hi.q))
               THEN BAdd(hi.q, <<1>>) ELSE hi.q,
               x)

RoundLen(sign, N, L, x, sticky) ==
    IF L <= MantBits
    THEN [s |-> sign, m |-> BShl(N, MantBits - L), e |-> x - (MantBits - L)]
    ELSE RoundCut(sign, BShr(N, L - MantBits), BShr(N, L - MantBits - 1),
                  x + L - MantBits, sticky)

(* The float nearest (ties to even) to sign * (N + d) * 2^x, where d = 0   *)
(* if sticky is false; otherwise 0 < d < 1 and N has more than MantBits    *)
(* bits.                                                                   *)
Round(sign, N, x, sticky) ==
    IF N = <<>> THEN Zero ELSE RoundLen(sign, N, BBitLen(N), x, sticky)

Sign(n) == IF n < 0 THEN 0 - 1 ELSE IF n = 0 THEN 0 ELSE 1

(* The float of a whole number.                                            *)
FInt(n) == Round(Sign(n), BFromInt(n * Sign(n)), 0, FALSE)

RoundQuot(sign, res, x) == Round(sign, BNorm(res.q), x, res.r # 0)

(* Bits kept of a quotient by SCALE before it is rounded.                  *)
DecShift == 5 * 15

(* The float a decimal n / SCALE denotes (a literal, a parsed input): the  *)
(* float nearest to it.                                                    *)
FDec(n) ==
    RoundQuot(Sign(n),
              BDivSmallR(BShl(BFromInt(n * Sign(n)), DecShift), SCALE),
              0 - DecShift)

FNeg(a) == [s |-> 0 - a.s, m |-> a.m, e |-> a.e]

FAbs(a) == [s |-> a.s * a.s, m |-> a.m, e |-> a.e]

(* a * b *)
FMul(a, b) ==
    IF a.s = 0 \/ b.s = 0 THEN Zero
    ELSE Round(a.s * b.s, BMul(a.m, b.m), a.e + b.e, FALSE)

(* Significands fill DivLimbs limbs after a shift by NormShift bits.       *)
DivLimbs == (MantBits + 14) \div 15

NormShift == 15 * DivLimbs - MantBits

FDivRound(sign, res, x) == Round(sign, res.q, x, res.r # <<>>)

(* a / b for b # 0 *)
FDiv(a, b) ==
    IF a.s = 0 THEN Zero
    ELSE FDivRound(a.s * b.s,
                   BDivMod(Zeros(DivLimbs) \o BShl(a.m, NormShift),
                           BShl(b.m, NormShift)),
                   a.e - b.e - 15 * DivLimbs)

(* sa * A * 2^e - sb * B * 2^e for non-zero signs sa and sb *)
FSubAligned(sa, A, sb, B, e) ==
    Round(IF sa # sb THEN sa ELSE sa * BCmp(A, B),
          IF sa # sb THEN BAdd(A, B)
          ELSE IF BCmp(A, B) >= 0 THEN BSub(A, B) ELSE BSub(B, A),
          e, FALSE)

Min(x, y) == IF x < y THEN x ELSE y

(* a - b *)
FSub(a, b) ==
    IF b.s = 0 THEN a
    ELSE IF a.s = 0 THEN FNeg(b)
    ELSE FSubAligned(a.s, BShl(a.m, a.e - Min(a.e, b.e)),
                     b.s, BShl(b.m, b.e - Min(a.e, b.e)), Min(a.e, b.e))

(* -1, 0, 1 as |a| < |b|, |a| = |b|, |a| > |b| *)
FCmpMag(a, b) ==
    IF a.s = 0 THEN (IF b.s = 0 THEN 0 ELSE 0 - 1)
    ELSE IF b.s = 0 THEN 1
    ELSE IF a.e < b.e THEN 0 - 1
    ELSE IF a.e > b.e THEN 1
    ELSE BCmp(a.m, b.m)

(* -1, 0, 1 as a < b, a = b, a > b *)
FCmp(a, b) ==
    IF a.s < b.s THEN 0 - 1
    ELSE IF a.s > b.s THEN 1
    ELSE IF a.s = 0 THEN 0
    ELSE a.s * FCmpMag(a, b)

FSqrtRound(N, r, x) == Round(1, r, x, BMul(r, r) # N)

FSqrtOf(N, x) == FSqrtRound(N, BSqrt(N), x)

(* Bits by which a significand is shifted before its root is taken, so     *)
(* that the root has more than MantBits bits.                              *)
SqrtShift == MantBits + 4

(* math.sqrt(a) for a >= 0: the significand is shifted by SqrtShift or one *)
(* bit more, so that the exponent left is even.                            *)
FSqrt(a) ==
    IF a.s = 0 THEN Zero
    ELSE FSqrtOf(BShl(a.m, SqrtShift + ((a.e - SqrtShift) % 2)),
                 (a.e - SqrtShift - ((a.e - SqrtShift) % 2)) \div 2)

(* One step of the division of a significand by SCALE.                     *)
Milli(a) == BNorm(BDivSmallR(a, SCALE).q)

(* Bits kept of 1e-12 before it is rounded.                                *)
EpsShift == 9 * 15

(* The literal 1e-12 of line 70: the float nearest to 1 / SCALE^4.         *)
Eps == Round(1, Milli(Milli(Milli(Milli(BShl(<<1>>, EpsShift))))),
             0 - EpsShift, TRUE)

-----------------------------------------------------------------------------
(* Helper functions, lines 68-96, on floats.                               *)

pct_close(student_val_, target_val_, tol_pct_) ==
    IF target_val_.s = 0
    THEN FCmp(FAbs(student_val_), Eps) < 0
    ELSE FCmp(FAbs(FSub(student_val_, target_val_)),
              FMul(FDiv(tol_pct_, FInt(100)), FAbs(target_val_))) <= 0

almost_within_overlap(student_val_, target_val_, tol_pct_) ==
    IF target_val_.s = 0
    THEN FALSE
    ELSE pct_close(student_val_, target_val_,
                   FMul(tol_pct_, FInt(ALMOST_MULT)))

almost_within_narrow(student_val_, target_val_, tol_pct_) ==
    IF target_val_.s = 0
    THEN FALSE
    ELSE (~pct_close(student_val_, target_val_, tol_pct_))
         /\ pct_close(student_val_, target_val_, tol_pct_)

almost_within(student_val_, target_val_, tol_pct_) ==
    IF target_val_.s = 0
    THEN FALSE
    ELSE (~pct_close(student_val_, target_val_, tol_pct_))
         /\ pct_close(student_val_, target_val_,
                      FMul(tol_pct_, FInt(ALMOST_MULT)))

verdict_icon(ok_, almost_) ==
    IF ok_ THEN "check"
    ELSE IF almost_ THEN "warning"
    ELSE "cross"

(* expected_from_measured, lines 85-89.  math.sqrt of a negative number    *)
(* raises ValueError (line 86); division by zero raises ZeroDivisionError  *)
(* (line 87, reached with R_meas = 0 because sqrt(0) succeeds).            *)
expected_from_measured(R_meas) ==
    LET prod == FMul(FDec(P_RATING_W), R_meas)
    IN  IF prod.s < 0
        THEN [err |-> "ValueError", Vmax |-> Zero, I120 |-> Zero,
              P120 |-> Zero]
        ELSE IF R_meas.s = 0
        THEN [err |-> "ZeroDivisionError", Vmax |-> Zero, I120 |-> Zero,
              P120 |-> Zero]
        ELSE [err  |-> "none",
              Vmax |-> FSqrt(prod),
              I120 |-> FDiv(FDec(V_SUPPLY), R_meas),
              P120 |-> FDiv(FMul(FDec(V_SUPPLY), FDec(V_SUPPLY)), R_meas)]

(* What requests.post can do (line 93): answer with a status code, or      *)
(* raise (timeout after 8 s, connection error, ...).                       *)
PostOutcomes ==
    { [kind |-> "response", code |-> 200],
      [kind |-> "response", code |-> 302],
      [kind |-> "response", code |-> 500],
      [kind |-> "exception", code |-> 0] }

log_submission_raises(o) ==
    IF o.kind = "exception"
    THEN [raised |-> TRUE, status |-> 0]
    ELSE [raised |-> FALSE, status |-> o.code]

(* log_submission, lines 91-96: the status it returns for an outcome of    *)
(* the POST; it never raises.                                              *)
log_submission(o) ==
    IF o.kind = "exception"
    THEN [raised |-> FALSE, status |-> 0 - 1]
    ELSE [raised |-> FALSE, status |-> o.code]

-----------------------------------------------------------------------------
(* The script, lines 118-197.                                              *)

(* The resistor numbers the widget of line 118 admits.                     *)
ResNumWidgetWide == 0..30

ResNumWidget == 1..30

NoRecord == [found |-> FALSE, R_nom |-> 0, R_meas |-> 0]

LookupWithDefault(n) ==
    IF n \in DOMAIN RESISTORS
    THEN [found |-> TRUE, R_nom |-> RESISTORS[n].R_nom,
          R_meas |-> RESISTORS[n].R_meas]
    ELSE [found |-> TRUE, R_nom |-> RESISTORS[1].R_nom,
          R_meas |-> RESISTORS[1].R_meas]

(* RESISTORS.get(int(res_num)), line 119: the record, or None.             *)
Lookup(n) ==
    IF n \in DOMAIN RESISTORS
    THEN [found |-> TRUE, R_nom |-> RESISTORS[n].R_nom,
          R_meas |-> RESISTORS[n].R_meas]
    ELSE NoRecord

El(kind, arg) == [kind |-> kind, arg |-> arg]

NoIcons == [R |-> "none", Vmax |-> "none", I120 |-> "none", P120 |-> "none"]

NoPayload == [built |-> FALSE, resistor_number |-> 0, R_ref_ohm |-> 0,
              R_student_ohm |-> 0, result |-> "none"]

NoOutcome == [kind |-> "none", code |-> 0]

(* Lines 119-134 for the record info of the lookup and the outcome e of    *)
(* expected_from_measured: what the top of the script leaves behind.       *)
(* rinfo["R_meas"] on None raises TypeError (line 120); an exception of    *)
(* expected_from_measured (line 134) ends the run as well.                 *)
TopWith(info, e) ==
    IF ~info.found
    THEN [rinfo |-> info, R_ref |-> 0, Vmax_exp |-> Zero,
          I120_exp |-> Zero, P120_exp |-> Zero, defined |-> {},
          err |-> "TypeError",
          screen |-> <<El("exception", "TypeError")>>]
    ELSE IF e.err # "none"
    THEN [rinfo |-> info, R_ref |-> info.R_meas, Vmax_exp |-> Zero,
          I120_exp |-> Zero, P120_exp |-> Zero, defined |-> {"R_ref"},
          err |-> e.err,
          screen |-> <<El("info", "none"), El("exception", e.err)>>]
    ELSE [rinfo |-> info, R_ref |-> info.R_meas, Vmax_exp |-> e.Vmax,
          I120_exp |-> e.I120, P120_exp |-> e.P120,
          defined |-> {"R_ref", "expected"}, err |-> "none",
          screen |-> <<El("info", "none")>>]

(* Lines 119-134 for resistor number n.                                    *)
Top(n) ==
    TopWith(Lookup(n), expected_from_measured(FDec(Lookup(n).R_meas)))

(* How many identifiers past the widget's range the lookup is probed with. *)
MaxBeyond == 2

(* Identifiers in and around the catalog's range.                          *)
ProbeIds == 0..(Len(R_meas_table) + MaxBeyond)

(* Top, tabulated over ProbeIds so that it is computed once per number.    *)
TopOf == [n \in ProbeIds |-> Top(n)]

(* The two comparisons of one quantity, lines 138-146.                     *)
Compare(student_val_, target_val_, tol_pct_) ==
    [ok     |-> pct_close(student_val_, target_val_, tol_pct_),
     almost |-> almost_within(student_val_, target_val_, tol_pct_)]

(* Lines 148-169: all_correct, any_almost, the four icons and the label,   *)
(* from the comparisons of the four quantities.                            *)
Aggregate(cr, cv, ci, cp) ==
    LET all_correct == cr.ok /\ cv.ok /\ ci.ok /\ cp.ok
        any_almost  == cr.almost \/ cv.almost \/ ci.almost \/ cp.almost
    IN  [icons |-> [R    |-> verdict_icon(cr.ok, cr.almost),
                    Vmax |-> verdict_icon(cv.ok, cv.almost),
                    I120 |-> verdict_icon(ci.ok, ci.almost),
                    P120 |-> verdict_icon(cp.ok, cp.almost)],
         result_label |-> IF all_correct THEN "Correct"
                          ELSE IF any_almost THEN "Almost"
                          ELSE "Incorrect"]

(* Lines 138-169 on floats: the student's four values, the reference       *)
(* resistance and the three expected values.                               *)
Grade(r, v, i, p, ref, ve, ie, pe) ==
    Aggregate(Compare(r, ref, FInt(TOL_R_PCT)),
              Compare(v, ve, FInt(TOL_VMAX_PCT)),
              Compare(i, ie, FInt(TOL_I120_PCT)),
              Compare(p, pe, FInt(TOL_P120_PCT)))

(* The banner of lines 161-169 for a label.                                *)
Banner(label) ==
    IF label = "Correct" THEN "success"
    ELSE IF label = "Almost" THEN "warning"
    ELSE "error"

(* What lines 151-169 write.                                               *)
BlockScreen(g) ==
    <<El("results", "none"),
      El("verdict_R", g.icons.R), El("verdict_Vmax", g.icons.Vmax),
      El("verdict_I120", g.icons.I120), El("verdict_P120", g.icons.P120),
      El(Banner(g.result_label), g.result_label)>>

Footer == <<El("footer", "none")>>

(* Lines 196-197.                                                          *)
Advisory == <<El("note", "logging issue"), El("caption", "logging status")>>

PctIdle ==
    /\ student_val = 0 /\ target_val = 0 /\ tol_pct = 0
    /\ ok = "none" /\ almost = "none"

(* One run of the script in which the button is not pressed, with the      *)
(* widgets holding n, r, v, i, p: lines 118-134 and the footer.            *)
ScriptRun(n, r, v, i, p) ==
    \E t \in {TopOf[n]} :
        /\ pc \in {"idle", "done", "crashed"}
        /\ res_num' = n /\ R_student' = r /\ Vmax' = v
        /\ I_120' = i /\ P_120' = p
        /\ rinfo' = t.rinfo /\ R_ref' = t.R_ref /\ Vmax_exp' = t.Vmax_exp
        /\ I120_exp' = t.I120_exp /\ P120_exp' = t.P120_exp
        /\ defined' = t.defined /\ err' = t.err
        /\ screen' = IF t.err = "none" THEN t.screen \o Footer ELSE t.screen
        /\ pc' = IF t.err = "none" THEN "idle" ELSE "crashed"
        /\ icons' = NoIcons /\ result_label' = "none"
        /\ payload' = NoPayload /\ attempts' = 0
        /\ outcome' = NoOutcome /\ status' = 0
        /\ UNCHANGED <<student_val, target_val, tol_pct, ok, almost>>

(* The values typed into the four number inputs (lines 127-131): the      *)
(* default 0, and values at, near and far from what resistor 9 (80 ohm)    *)
(* expects: 8.944 V, 1.5 A, 180 W; 394.8 ohm is 5 percent above the 376    *)
(* ohm of resistor 21.                                                     *)
RSamples == {0, 80000, 85000, 100000, 394800}

VmaxSamples == {0, 8944, 9600, 12000}

ISamples == {0, 1500, 1600, 2000}

PSamples == {0, 180000, 195000, 250000}

(* The comparisons of lines 138-146 for what the top of the script left    *)
(* behind (t) and each sample of each quantity.                            *)
CompareRow(t) ==
    [R    |-> [r \in RSamples |->
                  Compare(FDec(r), FDec(t.R_ref), FInt(TOL_R_PCT))],
     Vmax |-> [v \in VmaxSamples |->
                  Compare(FDec(v), t.Vmax_exp, FInt(TOL_VMAX_PCT))],
     I120 |-> [i \in ISamples |->
                  Compare(FDec(i), t.I120_exp, FInt(TOL_I120_PCT))],
     P120 |-> [p \in PSamples |->
                  Compare(FDec(p), t.P120_exp, FInt(TOL_P120_PCT))]]

(* CompareRow, tabulated for each resistor of the catalog, so that each    *)
(* comparison is computed once.                                            *)
CompareOf == [n \in DOMAIN RESISTORS |-> CompareRow(TopOf[n])]

(* The student edits one widget; Streamlit reruns the script.              *)
SetResNum ==
    \E n \in ResNumWidget : ScriptRun(n, R_student, Vmax, I_120, P_120)

SetRStudent ==
    \E r \in RSamples : ScriptRun(res_num, r, Vmax, I_120, P_120)

SetVmax ==
    \E v \in VmaxSamples : ScriptRun(res_num, R_student, v, I_120, P_120)

SetI120 ==
    \E i \in ISamples : ScriptRun(res_num, R_student, Vmax, i, P_120)

SetP120 ==
    \E p \in PSamples : ScriptRun(res_num, R_student, Vmax, I_120, p)

(* "Check my answers" is pressed: the script reruns from the top with the  *)
(* same widget values and enters the block of line 136; lines 138-169      *)
(* grade and write the results.  The button exists only on a page whose    *)
(* run reached line 136.  The comparisons are those of the floats of the   *)
(* four widget values against R_ref and the expected values, read from     *)
(* the table CompareOf.                                                    *)
Check ==
    /\ pc \in {"idle", "done"}
    /\ \E t \in {TopOf[res_num]}, c \in {CompareOf[res_num]} :
       \E g \in {Aggregate(c.R[R_student], c.Vmax[Vmax],
                           c.I120[I_120], c.P120[P_120])} :
          /\ rinfo' = t.rinfo /\ R_ref' = t.R_ref /\ Vmax_exp' = t.Vmax_exp
          /\ I120_exp' = t.I120_exp /\ P120_exp' = t.P120_exp
          /\ err' = t.err
          /\ payload' = NoPayload /\ attempts' = 0
          /\ outcome' = NoOutcome /\ status' = 0
          /\ IF t.err = "none"
             THEN /\ defined' = t.defined \cup {"verdicts"}
                  /\ icons' = g.icons
                  /\ result_label' = g.result_label
                  /\ screen' = t.screen \o BlockScreen(g)
                  /\ pc' = "log"
             ELSE /\ defined' = t.defined
                  /\ icons' = NoIcons
                  /\ result_label' = "none"
                  /\ screen' = t.screen
                  /\ pc' = "crashed"
    /\ UNCHANGED <<res_num, R_student, Vmax, I_120, P_120,
                   student_val, target_val, tol_pct, ok, almost>>

(* Lines 172-193 build the payload, whatever the label; line 194 calls     *)
(* log_submission, whose line 93 issues the POST.                          *)
Post ==
    /\ pc = "log"
    /\ payload' = [built |-> TRUE, resistor_number |-> res_num,
                   R_ref_ohm |-> R_ref, R_student_ohm |-> R_student,
                   result |-> result_label]
    /\ attempts' = attempts + 1
    /\ pc' = "await"
    /\ UNCHANGED <<res_num, R_student, Vmax, I_120, P_120, rinfo, R_ref,
                   Vmax_exp, I120_exp, P120_exp, defined, icons,
                   result_label, screen, outcome, status, err,
                   student_val, target_val, tol_pct, ok, almost>>

(* How far a run may go on issuing POSTs before the model stops it.        *)
MaxAttempts == 3

ResponseWithRetry ==
    \E o \in PostOutcomes :
        LET r == log_submission(o)
        IN  /\ pc = "await"
            /\ outcome' = o
            /\ status' = r.status
            /\ err' = err
            /\ IF r.status # 200 /\ attempts < MaxAttempts
               THEN pc' = "log" /\ screen' = screen
               ELSE pc' = "done" /\ screen' = screen \o Footer
            /\ UNCHANGED <<res_num, R_student, Vmax, I_120, P_120, rinfo,
                           R_ref, Vmax_exp, I120_exp, P120_exp, defined,
                           icons, result_label, payload, attempts,
                           student_val, target_val, tol_pct, ok, almost>>

(* requests.post returns or raises (line 93); log_submission turns either  *)
(* into a status (lines 94-96); lines 194-197 add the advisory note when   *)
(* the status is not 200; the run ends with the footer (line 200).         *)
Response ==
    \E o \in PostOutcomes :
        LET r == log_submission(o)
        IN  /\ pc = "await"
            /\ outcome' = o
            /\ IF r.raised
               THEN /\ status' = status
                    /\ err' = "RequestException"
                    /\ screen' = screen \o <<El("exception", "RequestException")>>
                    /\ pc' = "crashed"
               ELSE /\ status' = r.status
                    /\ err' = err
                    /\ screen' = IF r.status # 200
                                 THEN screen \o Advisory \o Footer
                                 ELSE screen \o Footer
                    /\ pc' = "done"
            /\ UNCHANGED <<res_num, R_student, Vmax, I_120, P_120, rinfo,
                           R_ref, Vmax_exp, I120_exp, P120_exp, defined,
                           icons, result_label, payload, attempts,
                           student_val, target_val, tol_pct, ok, almost>>

(* The first run of a session: every widget at its default (line 118: 1,   *)
(* lines 127-131: 0.0).                                                    *)
Init ==
    \E t \in {TopOf[1]} :
        /\ pc = "idle"
        /\ res_num = 1 /\ R_student = 0 /\ Vmax = 0 /\ I_120 = 0 /\ P_120 = 0
        /\ rinfo = t.rinfo /\ R_ref = t.R_ref /\ Vmax_exp = t.Vmax_exp
        /\ I120_exp = t.I120_exp /\ P120_exp = t.P120_exp
        /\ defined = t.defined /\ err = t.err
        /\ screen = t.screen \o Footer
        /\ icons = NoIcons /\ result_label = "none"
        /\ payload = NoPayload /\ attempts = 0
        /\ outcome = NoOutcome /\ status = 0
        /\ PctIdle

Next ==
    \/ SetResNum
    \/ SetRStudent
    \/ SetVmax
    \/ SetI120
    \/ SetP120
    \/ Check
    \/ Post
    \/ Response

Spec == Init /\ [][Next]_vars

-----------------------------------------------------------------------------
(* The lookup of lines 119-120 driven with identifiers the widget would    *)
(* not produce (a number outside 1..30, as the catalog's keys are fixed).  *)
SetResNumAny ==
    \E n \in ProbeIds : ScriptRun(n, R_student, Vmax, I_120, P_120)

NextLookup ==
    \/ SetResNumAny
    \/ SetRStudent
    \/ SetVmax
    \/ SetI120
    \/ SetP120
    \/ Check
    \/ Post
    \/ Response

SpecLookup == Init /\ [][NextLookup]_vars

-----------------------------------------------------------------------------
(* expected_from_measured and the grading of lines 138-169 applied to      *)
(* reference resistances and student values given directly.                *)

RefSamples == {0 - 100000, 0, 80000, 100000, 1000000}

GradeRSamples == {0, 100000, 106000, 130000}

GradeVmaxSamples == {0, 10000}

GradeISamples == {0, 1200}

GradePSamples == {0, 144000}

InitGrade ==
    /\ pc = "fn"
    /\ R_ref \in RefSamples
    /\ R_student \in GradeRSamples
    /\ Vmax \in GradeVmaxSamples
    /\ I_120 \in GradeISamples
    /\ P_120 \in GradePSamples
    /\ res_num = 0 /\ rinfo = NoRecord
    /\ Vmax_exp = Zero /\ I120_exp = Zero /\ P120_exp = Zero
    /\ defined = {"R_ref"} /\ err = "none"
    /\ screen = <<>>
    /\ icons = NoIcons /\ result_label = "none"
    /\ payload = NoPayload /\ attempts = 0
    /\ outcome = NoOutcome /\ status = 0
    /\ PctIdle

(* Vmax_exp, I120_exp, P120_exp = expected_from_measured(R_ref), line 134. *)
CallExpected ==
    \E e \in {expected_from_measured(FDec(R_ref))} :
        /\ pc = "fn"
        /\ err' = e.err
        /\ Vmax_exp' = e.Vmax /\ I120_exp' = e.I120 /\ P120_exp' = e.P120
        /\ defined' = IF e.err = "none" THEN defined \cup {"expected"}
                      ELSE defined
        /\ pc' = IF e.err = "none" THEN "fn_expected" ELSE "fn_raised"
        /\ UNCHANGED <<res_num, R_student, Vmax, I_120, P_120, rinfo, R_ref,
                       icons, result_label, screen, payload, attempts,
                       outcome, status,
                       student_val, target_val, tol_pct, ok, almost>>

(* Lines 138-169 on the values at hand, writing to an empty page.          *)
CallGrade ==
    \E g \in {Grade(FDec(R_student), FDec(Vmax), FDec(I_120), FDec(P_120),
                     FDec(R_ref), Vmax_exp, I120_exp, P120_exp)} :
        /\ pc = "fn_expected"
        /\ icons' = g.icons
        /\ result_label' = g.result_label
        /\ screen' = screen \o BlockScreen(g)
        /\ defined' = defined \cup {"verdicts"}
        /\ pc' = "fn_graded"
        /\ UNCHANGED <<res_num, R_student, Vmax, I_120, P_120, rinfo, R_ref,
                       Vmax_exp, I120_exp, P120_exp, payload, attempts,
                       outcome, status, err,
                       student_val, target_val, tol_pct, ok, almost>>

NextGrade ==
    \/ CallExpected
    \/ CallGrade

SpecGrade == InitGrade /\ [][NextGrade]_vars

-----------------------------------------------------------------------------
(* pct_close and almost_within applied to arguments given directly.        *)

(* Arguments range over the decimals -MaxVal/SCALE .. MaxVal/SCALE.        *)
MaxVal == 30

(* Tolerances, in percent.                                                 *)
Tols == {1, 2, 5, 10, 20, 25, 50}

BoolStr(b) == IF b THEN "true" ELSE "false"

InitPct ==
    /\ pc = "pct"
    /\ student_val \in (0 - MaxVal)..MaxVal
    /\ target_val \in (0 - MaxVal)..MaxVal
    /\ tol_pct \in Tols
    /\ ok = "none" /\ almost = "none"
    /\ res_num = 0 /\ R_student = 0 /\ Vmax = 0 /\ I_120 = 0 /\ P_120 = 0
    /\ rinfo = NoRecord /\ R_ref = 0
    /\ Vmax_exp = Zero /\ I120_exp = Zero /\ P120_exp = Zero
    /\ defined = {} /\ err = "none"
    /\ screen = <<>>
    /\ icons = NoIcons /\ result_label = "none"
    /\ payload = NoPayload /\ attempts = 0
    /\ outcome = NoOutcome /\ status = 0

CallPct ==
    /\ pc = "pct"
    /\ \E s \in {FDec(student_val)}, t \in {FDec(target_val)},
          tol \in {FInt(tol_pct)} :
          /\ ok' = BoolStr(pct_close(s, t, tol))
          /\ almost' = BoolStr(almost_within(s, t, tol))
    /\ pc' = "pct_done"
    /\ UNCHANGED <<res_num, R_student, Vmax, I_120, P_120, rinfo, R_ref,
                   Vmax_exp, I120_exp, P120_exp, defined, icons,
                   result_label, screen, payload, attempts, outcome, status,
                   err, student_val, target_val, tol_pct>>

NextPct == CallPct

SpecPct == InitPct /\ [][NextPct]_vars

-----------------------------------------------------------------------------
(* Properties.                                                             *)

(* The overall result the stated rule gives for four verdict icons.        *)
RuleLabel(ic) ==
    LET all == {ic.R, ic.Vmax, ic.I120, ic.P120}
    IN  IF all = {"check"} THEN "Correct"
        ELSE IF "cross" \notin all /\ "warning" \in all THEN "Almost"
        ELSE "Incorrect"

Graded == icons # NoIcons

(* C1: whenever a check has graded, the overall result is the one the rule *)
(* gives for the four verdicts: Correct iff all four match, Almost iff     *)
(* none mismatches and at least one is close, Incorrect otherwise.         *)
C1_AggregationRule ==
    Graded => /\ result_label \in {"Correct", "Almost", "Incorrect"}
              /\ result_label = RuleLabel(icons)

(* C2: a POST is issued only by a check whose overall result is Correct or *)
(* Almost; an Incorrect check never posts.                                 *)
C2_PostOnlyCorrectOrAlmost ==
    attempts > 0 => result_label \in {"Correct", "Almost"}

(* C3: for a non-zero target and a positive tolerance, pct_close and       *)
(* almost_within of the same arguments are never both true.                *)
C3_MutuallyExclusive ==
    (pc = "pct_done" /\ target_val # 0 /\ tol_pct > 0)
        => ~(ok = "true" /\ almost = "true")

C3_Witness ==
    /\ pc = "pct_done" /\ target_val # 0 /\ tol_pct > 0
    /\ ok = "false" /\ almost = "true"

VerdictOnScreen ==
    \E k \in 1..Len(screen) : screen[k].kind = "verdict_R"

(* C4: when the resistor identifier is not a key of the catalog, the       *)
(* lookup finds nothing and the run has halted: no reference value and no  *)
(* expected value is set, no verdict is computed or shown, no payload is   *)
(* built and no POST is issued.                                            *)
C4_NotFoundHalts ==
    res_num \notin DOMAIN RESISTORS
        => /\ ~rinfo.found
           /\ pc = "crashed"
           /\ defined = {}
           /\ ~Graded /\ result_label = "none"
           /\ ~VerdictOnScreen
           /\ ~payload.built /\ attempts = 0

C4_Witness ==
    /\ res_num = Len(R_meas_table) + 1
    /\ pc = "crashed" /\ err = "TypeError"

(* The four verdict lines and the banner of the current grading are the    *)
(* first things on the page after the info line.                           *)
VerdictsShown ==
    /\ Graded
    /\ Len(screen) >= 7
    /\ screen[1] = El("info", "none")
    /\ SubSeq(screen, 2, 7)
         = BlockScreen([icons |-> icons, result_label |-> result_label])

AdvisoryShown ==
    \E k \in 1..Len(screen) : screen[k].kind = "note"

(* C5: a POST is issued only from a state in which the four verdicts and   *)
(* the overall result are already on the page; whatever the POST does, the *)
(* next step ends the run normally with those lines still in place, and    *)
(* the advisory note is on the page exactly when the status is not 200.    *)
C5_VerdictBeforePost ==
    /\ [](attempts > 0 => (VerdictsShown /\ pc # "crashed" /\ err = "none"))
    /\ []((pc = "done" /\ attempts > 0)
            => (AdvisoryShown <=> status # 200))
    /\ [][attempts' > attempts => (VerdictsShown /\ screen' = screen)]_vars
    /\ [][pc = "await"
            => /\ pc' = "done"
               /\ SubSeq(screen', 1, Len(screen)) = screen
               /\ screen'[Len(screen')].kind = "footer"]_vars

C5_Witness ==
    /\ pc = "done" /\ attempts = 1
    /\ outcome.kind = "exception"
    /\ VerdictsShown /\ AdvisoryShown

(* C6: expected_from_measured never ends in an arithmetic exception,       *)
(* whatever the reference resistance.                                      *)
C6_NoArithmeticException ==
    err \notin {"ZeroDivisionError", "ValueError"}

Abs(x) == IF x < 0 THEN 0 - x ELSE x

(* C7: pct_close is true iff the student value lies in the closed band of  *)
(* tol percent of |target| around a non-zero target (its two ends          *)
(* included), and, for a zero target, iff the student value is below       *)
(* 1e-12 in size (on the decimals: is zero), whatever the tolerance.       *)
C7_PctCloseBand ==
    pc = "pct_done"
        => (ok = "true"
              <=> IF target_val = 0
                  THEN student_val = 0
                  ELSE 100 * Abs(student_val - target_val)
                           <= tol_pct * Abs(target_val))

Scenario ==
    /\ pc = "fn_graded"
    /\ R_ref = 100000
    /\ Vmax = 10000 /\ I_120 = 1200 /\ P_120 = 144000

(* C8: with a 100 ohm reference and the student values 10 V, 1.2 A and     *)
(* 144 W, a resistance of 100 gives four matches and Correct, 106 gives    *)
(* Close for the resistance, three matches and Almost, and 130 gives       *)
(* Mismatch for the resistance, three matches and Incorrect.               *)
C8_Scenario ==
    Scenario
        => /\ Vmax_exp = FDec(10000) /\ I120_exp = FDec(1200)
           /\ P120_exp = FDec(144000)
           /\ icons.Vmax = "check" /\ icons.I120 = "check"
           /\ icons.P120 = "check"
           /\ R_student = 100000
                => (icons.R = "check" /\ result_label = "Correct")
           /\ R_student = 106000
                => (icons.R = "warning" /\ result_label = "Almost")
           /\ R_student = 130000
                => (icons.R = "cross" /\ result_label = "Incorrect")

C8_Witness ==
    /\ Scenario /\ R_student = 106000
    /\ icons.R = "warning" /\ result_label = "Almost"

(* C9: a run issues at most one POST; once the POST has returned or raised *)
(* the run is over without an exception, and the status is the response's  *)
(* code, or -1 when the POST raised.                                       *)
C9_AtMostOnePost ==
    /\ attempts <= 1
    /\ outcome.kind # "none"
         => /\ pc = "done" /\ err = "none" /\ attempts = 1
            /\ status = IF outcome.kind = "exception" THEN 0 - 1
                         ELSE outcome.code

C9_Witness ==
    /\ pc = "done" /\ attempts = 1
    /\ outcome.kind = "exception" /\ status = 0 - 1

(* C10: every resistor number the widget admits is a key of the catalog    *)
(* with a measured resistance above zero, and no run ends in an exception  *)
(* of the lookup or of expected_from_measured.                             *)
C10_WidgetInputsSafe ==
    /\ res_num \in DOMAIN RESISTORS
    /\ rinfo.found /\ R_ref > 0
    /\ "expected" \in defined
    /\ pc # "crashed"
    /\ err \notin {"TypeError", "ZeroDivisionError", "ValueError"}

C10_Witness ==
    /\ res_num = 30 /\ pc = "log"
    /\ Vmax_exp.s = 1 /\ I120_exp.s = 1 /\ P120_exp.s = 1

=============================================================================
